---- MODULE Spec2Model ----
(***************************************************************************)
(* Query routing, multi-collection retrieval/merge and answer synthesis    *)
(* of admin-rag (src/src/agents/*.py, src/src/retrieval/app.py).           *)
(*                                                                         *)
(* One request of the /search handler is modelled step by step; the steps  *)
(* are cut at the calls to the external collaborators (the classification  *)
(* service, the Retrieval Port `retrieve`, the generation service).        *)
(* Scores are integers (the code only compares them).  An Optional value   *)
(* is a sequence of length 0 (None) or 1.                                  *)
(***************************************************************************)
EXTENDS Integers, Sequences, FiniteSets, TLC

VARIABLES
    pc,               \* position of the request in post()
    provider,         \* LLM_CONFIG["provider"], fixed for the process
    query,            \* the query string of the request, a sequence of characters
    top_k,            \* the top_k argument of the request
    llm_raw,          \* Optional: the classification service's raw structured output
    route_outcome,    \* how the classification call ended
    decision,         \* Optional: the RoutingDecision returned by route()
    calls,            \* the calls made to retrieve(), in order
    port_out,         \* what each of these calls did: raised, or the list returned
    all_results,      \* retrieve_with_routing's all_results
    results,          \* the list retrieve_with_routing returned to post()
    shown,            \* the passages given to _build_context
    gen_raw,          \* Optional: the generation service's raw structured output
    gen_outcome,      \* how the generation call ended
    answer,           \* Optional: the AnswerWithCitations returned by generate()
    response,         \* what post() returned
    routing_agent,    \* module global _routing_agent (Optional)
    answer_generator, \* module global _answer_generator (Optional)
    self_decision,    \* Optional: the object a property getter is applied to
    prop_ret,         \* Optional: what the getter returned
    gen_error,        \* Optional: str(e) of the exception the generation call raised
    ctor_args,        \* Optional: the keyword arguments given to AnswerWithCitations()
    callers,          \* the threads calling get_routing_agent / get_answer_generator
    built,            \* how many agents of each kind have been constructed
    llm_calls,        \* how many calls each external LLM service has received
    routed            \* the decisions successive calls of route() returned

vars == <<pc, provider, query, top_k, llm_raw, route_outcome, decision, calls,
          port_out, all_results, results, shown, gen_raw, gen_outcome, answer,
          response, routing_agent, answer_generator, self_decision, prop_ret,
          gen_error, ctor_args, callers, built, llm_calls, routed>>

\* the variables one request of the handler never touches
component == <<ctor_args, callers, built>>

----------------------------------------------------------------------------
(* Bounds of the model *)

\* most passages one call of the Retrieval Port returns
MaxRet == 2
\* largest top_k of a request
MaxTopK == 4
\* scores are 1..MaxScore
MaxScore == 2
\* longest citation_indices list the generation service returns
MaxCites == 2

\* most request threads calling a getter at the same time
MaxThreads == 3

\* most calls of route() made in a row for one query
MaxRouteCalls == 2

(* Program constants *)

\* generate() builds the context from results[:3]
ContextCap == 3

None == <<>>
Some(x) == <<x>>

Min(a, b) == IF a <= b THEN a ELSE b

\* Python's s[:k] for k >= 0
Take(s, k) == SubSeq(s, 1, Min(k, Len(s)))

----------------------------------------------------------------------------
(* RoutingDecision *)

Strategies == {"code_only", "kali_only", "both_code_first", "both_kali_first"}

\* strings a strategy field may be asked to hold; the last two are not in the Literal
StrategyStrings == Strategies \cup {"invalid_strategy", "convention_only"}

\* idcc: Optional[str]; the empty string is a string, not null
IdccValues == {None, Some(""), Some("1486"), Some("1979")}

Reasonings == {"General legal question", "IT engineer (Syntec convention)"}

FallbackReasoning == "Fallback: LLM error"

\* the strategy field typed as a plain string
RoutingDecisionValidAnyString(strategy) == strategy \in StrategyStrings

\* pydantic's check of the Literal type of `strategy`
RoutingDecisionValid(strategy) == strategy \in Strategies

RoutingDecision(strategy, idcc, reasoning) ==
    [strategy |-> strategy, idcc |-> idcc, reasoning |-> reasoning]

\* the two mixed strategies return the same order
CollectionsSameOrder(strategy) ==
    IF strategy = "code_only" THEN <<"code_travail">>
    ELSE IF strategy = "kali_only" THEN <<"kali">>
    ELSE IF strategy = "both_code_first" THEN <<"code_travail", "kali">>
    ELSE IF strategy = "both_kali_first" THEN <<"code_travail", "kali">>
    ELSE <<"code_travail">>

\* the default arm returns nothing
CollectionsEmptyDefault(strategy) ==
    IF strategy = "code_only" THEN <<"code_travail">>
    ELSE IF strategy = "kali_only" THEN <<"kali">>
    ELSE IF strategy = "both_code_first" THEN <<"code_travail", "kali">>
    ELSE IF strategy = "both_kali_first" THEN <<"kali", "code_travail">>
    ELSE <<>>

\* the collections property
Collections(strategy) ==
    IF strategy = "code_only" THEN <<"code_travail">>
    ELSE IF strategy = "kali_only" THEN <<"kali">>
    ELSE IF strategy = "both_code_first" THEN <<"code_travail", "kali">>
    ELSE IF strategy = "both_kali_first" THEN <<"kali", "code_travail">>
    ELSE <<"code_travail">>

\* a fallback that still consults the conventions
FallbackDecisionBoth == RoutingDecision("both_code_first", None, FallbackReasoning)

\* a fallback to one convention's collection
FallbackDecisionConvention == RoutingDecision("kali_only", Some("1486"), FallbackReasoning)

\* route()'s except branch: idcc takes its default, the collections keyword is ignored
FallbackDecision == RoutingDecision("code_only", None, FallbackReasoning)

\* Python truthiness of an Optional[str]
Truthy(idcc) == idcc # None /\ idcc[1] # ""

----------------------------------------------------------------------------
(* The Retrieval Port and the Merger (retrieve_with_routing) *)

\* the query strings of a request: empty, blank, padded
Queries == {<<>>, <<" ">>, <<" ", "q", " ">>}

RECURSIVE LStrip(_)
LStrip(s) == IF s # <<>> /\ Head(s) = " " THEN LStrip(Tail(s)) ELSE s

RECURSIVE RStrip(_)
RStrip(s) ==
    IF s # <<>> /\ s[Len(s)] = " " THEN RStrip(SubSeq(s, 1, Len(s) - 1)) ELSE s

\* str.strip()
Strip(s) == RStrip(LStrip(s))

Scores == 1..MaxScore

\* the score lists a call of the Port may return: at most MaxRet passages,
\* sorted by descending score (the vector store ranks its matches)
PortScoreLists ==
    { sl \in UNION { [1..n -> Scores] : n \in 0..MaxRet } :
        \A i \in 1..(Len(sl) - 1) : sl[i] >= sl[i + 1] }

\* the list of result dictionaries retrieve() builds from the documents
PortResults(collection, sl) ==
    [ i \in 1..Len(sl) |->
        [content |-> <<collection, i>>,
         metadata |-> [source |-> collection, article_num |-> i],
         score |-> sl[i]] ]

\* the filter names one fixed convention
BuildFilterFixedIdcc(collection, idcc) ==
    IF collection = "kali" /\ Truthy(idcc)
    THEN Some([key |-> "meta.idcc", value |-> "1486"])
    ELSE None

\* the filter is built for every call to the convention collection
BuildFilterUnconditional(collection, idcc) ==
    IF collection = "kali"
    THEN Some([key |-> "meta.idcc", value |-> IF idcc = None THEN "None" ELSE idcc[1]])
    ELSE None

\* the filters argument of the call for one collection
BuildFilter(collection, idcc) ==
    IF collection = "kali" /\ Truthy(idcc)
    THEN Some([key |-> "meta.idcc", value |-> idcc[1]])
    ELSE None

\* the convention tag put on the results of every collection
TagResultAlwaysConvention(r, collection, idcc) ==
    [content |-> r.content, metadata |-> r.metadata, score |-> r.score,
     collection |-> collection,
     convention |-> IF Truthy(idcc) THEN Some(idcc[1]) ELSE None]

\* tagging that also overwrites the score
TagResultResetsScore(r, collection, idcc) ==
    [content |-> r.content, metadata |-> r.metadata, score |-> 1,
     collection |-> collection,
     convention |-> IF collection = "kali" /\ Truthy(idcc) THEN Some(idcc[1]) ELSE None]

\* one result tagged with its source
TagResult(r, collection, idcc) ==
    [content |-> r.content, metadata |-> r.metadata, score |-> r.score,
     collection |-> collection,
     convention |-> IF collection = "kali" /\ Truthy(idcc) THEN Some(idcc[1]) ELSE None]

TagResults(rs, collection, idcc) ==
    [ i \in 1..Len(rs) |-> TagResult(rs[i], collection, idcc) ]

\* x goes behind every element whose score is at least its own
RECURSIVE InsertByScoreDesc(_, _)
InsertByScoreDesc(sorted, x) ==
    IF sorted = <<>> THEN <<x>>
    ELSE IF Head(sorted).score >= x.score
         THEN <<Head(sorted)>> \o InsertByScoreDesc(Tail(sorted), x)
         ELSE <<x>> \o sorted

\* the sort left out
SortOmitted(s) == s

\* x goes in front of the elements whose score equals its own
RECURSIVE InsertBeforeEqual(_, _)
InsertBeforeEqual(sorted, x) ==
    IF sorted = <<>> THEN <<x>>
    ELSE IF Head(sorted).score > x.score
         THEN <<Head(sorted)>> \o InsertBeforeEqual(Tail(sorted), x)
         ELSE <<x>> \o sorted

\* a descending sort that reverses the order of equal scores
RECURSIVE SortByScoreDescUnstable(_)
SortByScoreDescUnstable(s) ==
    IF s = <<>> THEN <<>>
    ELSE InsertBeforeEqual(SortByScoreDescUnstable(SubSeq(s, 1, Len(s) - 1)), s[Len(s)])

\* list.sort(key=score, reverse=True): a stable sort, equal scores keep their order
RECURSIVE SortByScoreDesc(_)
SortByScoreDesc(s) ==
    IF s = <<>> THEN <<>>
    ELSE InsertByScoreDesc(SortByScoreDesc(SubSeq(s, 1, Len(s) - 1)), s[Len(s)])

\* the truncation left out
MergeResultsUncapped(all, k) == SortByScoreDesc(all)

\* what retrieve_with_routing does after its loop: sort, then all_results[:top_k]
MergeResults(all, k) == Take(SortByScoreDesc(all), k)

----------------------------------------------------------------------------
(* AnswerWithCitations and the Answer Synthesizer (AnswerGenerator.generate) *)

NoInfoAnswer == "Aucune information disponible pour repondre a cette question."
FallbackAnswer == "Je n'ai pas pu generer une reponse a cette question."

\* str(e)[:100]
ErrorCap == 100

\* the messages of the exceptions the generation call may raise: a short one, and
\* one longer than ErrorCap characters
ErrorMessages ==
    { <<"A", "P", "I", " ", "E", "r", "r", "o", "r">>,
      [ i \in 1..(ErrorCap + 1) |-> IF i <= ErrorCap THEN "x" ELSE "y" ] }

\* str(e) of the AttributeError raised on answer.citation_indices when parsed is None
RefusalMessage ==
    << "'", "N", "o", "n", "e", "T", "y", "p", "e", "'", " ", "o", "b",
      "j", "e", "c", "t", " ", "h", "a", "s", " ", "n", "o", " ", "a",
      "t", "t", "r", "i", "b", "u", "t", "e", " ", "'", "c", "i", "t",
      "a", "t", "i", "o", "n", "_", "i", "n", "d", "i", "c", "e", "s",
      "'" >>

\* the message of pydantic's ValidationError for a confidence out of range
ValidationMessage == [ i \in 1..(ErrorCap + 2) |-> "v" ]

\* the field's default, 0.7, in tenths
DefaultConfidence == 7

\* a confidence field without bounds
AnswerValidUnbounded(confidence) == TRUE

\* confidence in tenths; the field is bounded by ge=0.0, le=1.0
AnswerValid(confidence) == 0 <= confidence /\ confidence <= 10

AnswerWithCitations(text, confidence, cites, reasoning) ==
    [answer |-> text, confidence |-> confidence, citation_indices |-> cites,
     reasoning |-> reasoning]

\* a context built from every passage of the list
ContextOfAll(rs) == rs

\* the context is built from results[:3]
ContextOf(rs) == Take(rs, ContextCap)

\* the elements e of s with lo <= e < hi, in order
RECURSIVE KeepInRange(_, _, _)
KeepInRange(s, lo, hi) ==
    IF s = <<>> THEN <<>>
    ELSE (IF lo <= Head(s) /\ Head(s) < hi THEN <<Head(s)>> ELSE <<>>)
         \o KeepInRange(Tail(s), lo, hi)

\* s without the repetitions of its elements
RECURSIVE Deduplicated(_)
Deduplicated(s) ==
    IF s = <<>> THEN <<>>
    ELSE LET front == Deduplicated(SubSeq(s, 1, Len(s) - 1))
         IN  IF \E i \in 1..Len(front) : front[i] = s[Len(s)]
             THEN front
             ELSE Append(front, s[Len(s)])

\* a validation that also removes repeated indices
ValidIndicesDeduplicated(cites, rs) == Deduplicated(KeepInRange(cites, 0, Len(rs)))

\* valid_indices = [idx for idx in answer.citation_indices if 0 <= idx < len(results)]
ValidIndices(cites, rs) == KeepInRange(cites, 0, Len(rs))

\* the citation indices the service may name: a negative one, the first one, and
\* the two on either side of the end of a list one longer than the context
CiteValues == {0 - 1, 0, ContextCap, ContextCap + 1}

CiteLists == UNION { [1..n -> CiteValues] : n \in 0..MaxCites }

\* the structured outputs of the generation service that pass validation ...
GenResponses ==
    { AnswerWithCitations("answer", 7, c, <<"why">>) : c \in CiteLists }

\* ... and one that does not (confidence above 1.0)
BadGenResponses == { AnswerWithCitations("answer", 11, <<>>, <<"why">>) }

----------------------------------------------------------------------------
(* One request of the /search handler: post() *)

Providers == {"openai", "mistral"}

\* the two module globals, and no agent constructed yet
GetterKinds == {"routing_agent", "answer_generator"}

NoneBuilt == [ g \in GetterKinds |-> 0 ]

\* the two external LLM services, and no call made yet
NoCalls == [classification |-> 0, generation |-> 0]

Init ==
    /\ pc = "idle"
    /\ provider \in Providers
    /\ query = <<>>
    /\ top_k = 0
    /\ llm_raw = None
    /\ route_outcome = "none"
    /\ decision = None
    /\ calls = <<>>
    /\ port_out = <<>>
    /\ all_results = <<>>
    /\ results = <<>>
    /\ shown = <<>>
    /\ gen_raw = None
    /\ gen_outcome = "none"
    /\ answer = None
    /\ response = "none"
    /\ routing_agent = None
    /\ answer_generator = None
    /\ self_decision = None
    /\ prop_ret = None
    /\ gen_error = None
    /\ ctor_args = None
    /\ callers = <<>>
    /\ built = NoneBuilt
    /\ llm_calls = NoCalls
    /\ routed = <<>>

\* get_routing_agent(), get_answer_generator(): create on first use
GetSingleton(global) == IF global = None THEN Some("instance") ELSE global

\* post() with an empty or blank query: the early return
PostBlankQuery ==
    /\ pc = "idle"
    /\ \E q \in Queries, k \in 1..MaxTopK :
        /\ Strip(q) = <<>>
        /\ query' = q
        /\ top_k' = k
    /\ response' = "enter_query"
    /\ pc' = "done"
    /\ UNCHANGED <<component, llm_calls, routed, provider, llm_raw, route_outcome, decision, calls, port_out,
                   all_results, results, shown, gen_raw, gen_outcome, gen_error, answer,
                   routing_agent, answer_generator, self_decision, prop_ret>>

\* post(): RoutingAgent() raises for an unsupported provider; the handler's
\* except branch returns the error page
PostAgentError ==
    /\ pc = "idle"
    /\ provider # "openai"
    /\ \E q \in Queries, k \in 1..MaxTopK :
        /\ Strip(q) # <<>>
        /\ query' = q
        /\ top_k' = k
    /\ response' = "error"
    /\ pc' = "done"
    /\ UNCHANGED <<component, llm_calls, routed, provider, llm_raw, route_outcome, decision, calls, port_out,
                   all_results, results, shown, gen_raw, gen_outcome, gen_error, answer,
                   routing_agent, answer_generator, self_decision, prop_ret>>

\* post(): get_routing_agent(), then route() calls the classification service
PostRoute ==
    /\ pc = "idle"
    /\ provider = "openai"
    /\ \E q \in Queries, k \in 1..MaxTopK :
        /\ Strip(q) # <<>>
        /\ query' = q
        /\ top_k' = k
    /\ routing_agent' = GetSingleton(routing_agent)
    /\ pc' = "llm_route"
    /\ UNCHANGED <<component, llm_calls, routed, provider, llm_raw, route_outcome, decision, calls, port_out,
                   all_results, results, shown, gen_raw, gen_outcome, gen_error, answer,
                   response, answer_generator, self_decision, prop_ret>>

\* the structured outputs the classification service may produce
RawDecisions ==
    { RoutingDecision(s, i, "IT engineer (Syntec convention)") :
        s \in StrategyStrings, i \in IdccValues }

\* a route() that calls the classification service a second time after a failure
RoutedAfterRetry(outcome, raw, d) ==
    /\ llm_raw' = raw
    /\ route_outcome' = outcome
    /\ llm_calls' = [llm_calls EXCEPT
                       !.classification = @ + (IF outcome = "parsed" THEN 1 ELSE 2)]
    /\ decision' = Some(d)
    /\ all_results' = <<>>
    /\ pc' = "retrieve"
    /\ UNCHANGED <<component, routed, provider, query, top_k, calls, port_out, results, shown, gen_raw,
                   gen_outcome, gen_error, answer, response, routing_agent, answer_generator,
                   self_decision, prop_ret>>

\* route() has called the classification service once and returns d; post()
\* enters retrieve_with_routing
Routed(outcome, raw, d) ==
    /\ llm_raw' = raw
    /\ route_outcome' = outcome
    /\ llm_calls' = [llm_calls EXCEPT !.classification = @ + 1]
    /\ decision' = Some(d)
    /\ all_results' = <<>>
    /\ pc' = "retrieve"
    /\ UNCHANGED <<component, routed, provider, query, top_k, calls, port_out, results, shown, gen_raw,
                   gen_outcome, gen_error, answer, response, routing_agent, answer_generator,
                   self_decision, prop_ret>>

\* _llm_route returns the parsed, validated decision
LlmRouteParsed ==
    /\ pc = "llm_route"
    /\ \E raw \in RawDecisions :
        /\ RoutingDecisionValid(raw.strategy)
        /\ Routed("parsed", Some(raw), raw)

\* the service's output violates the RoutingDecision schema: validation raises
LlmRouteSchemaViolation ==
    /\ pc = "llm_route"
    /\ \E raw \in RawDecisions :
        /\ ~RoutingDecisionValid(raw.strategy)
        /\ Routed("schema_violation", Some(raw), FallbackDecision)

\* the call raises (API error, timeout)
LlmRouteException ==
    /\ pc = "llm_route"
    /\ Routed("exception", None, FallbackDecision)

\* the service refuses: parsed is None and route() raises on decision.strategy
LlmRouteRefusal ==
    /\ pc = "llm_route"
    /\ Routed("refusal", None, FallbackDecision)

\* the collections of the decision in hand
DecisionCollections == Collections(decision[1].strategy)

\* a call that asks each collection for twice the final cap
NextCallOverFetch ==
    LET collection == DecisionCollections[Len(calls) + 1]
    IN  [query |-> Strip(query), collection_name |-> collection, top_k |-> 2 * top_k,
         filters |-> BuildFilter(collection, decision[1].idcc)]

\* the call retrieve_with_routing makes for its next collection
NextCall ==
    LET collection == DecisionCollections[Len(calls) + 1]
    IN  [query |-> Strip(query), collection_name |-> collection, top_k |-> top_k,
         filters |-> BuildFilter(collection, decision[1].idcc)]

\* a loop that returns after its first iteration
LoopStepEarlyReturn(all) ==
    /\ all_results' = all
    /\ results' = MergeResults(all, top_k)
    /\ pc' = "retrieved"

\* a loop that never leaves its body
LoopStepStays(all) ==
    /\ all_results' = all
    /\ results' = results
    /\ pc' = "retrieve"

\* the loop has reached its last collection: sort, truncate, return to post()
LoopStep(all) ==
    /\ all_results' = all
    /\ IF Len(calls) + 1 = Len(DecisionCollections)
       THEN /\ results' = MergeResults(all, top_k)
            /\ pc' = "retrieved"
       ELSE /\ results' = results
            /\ pc' = "retrieve"

\* one iteration of the loop: retrieve() returns, the results are tagged and added
RetrieveReturns ==
    /\ pc = "retrieve"
    /\ Len(calls) < Len(DecisionCollections)
    /\ \E sl \in PortScoreLists :
        LET call == NextCall
            rs == PortResults(call.collection_name, sl)
        IN  /\ calls' = Append(calls, call)
            /\ port_out' = Append(port_out, [raised |-> FALSE, results |-> rs])
            /\ LoopStep(all_results \o
                        TagResults(rs, call.collection_name, decision[1].idcc))
    /\ UNCHANGED <<component, llm_calls, routed, provider, query, top_k, llm_raw, route_outcome, decision, shown,
                   gen_raw, gen_outcome, gen_error, answer, response, routing_agent,
                   answer_generator, self_decision, prop_ret>>

\* a failing call that discards what the earlier calls returned
RetrieveRaisesDropsAll ==
    /\ pc = "retrieve"
    /\ Len(calls) < Len(DecisionCollections)
    /\ calls' = Append(calls, NextCall)
    /\ port_out' = Append(port_out, [raised |-> TRUE, results |-> <<>>])
    /\ LoopStep(<<>>)
    /\ UNCHANGED <<component, llm_calls, routed, provider, query, top_k, llm_raw, route_outcome, decision, shown,
                   gen_raw, gen_outcome, gen_error, answer, response, routing_agent,
                   answer_generator, self_decision, prop_ret>>

\* a failing call that ends the loop: what was gathered so far is returned
RetrieveRaisesAborts ==
    /\ pc = "retrieve"
    /\ Len(calls) < Len(DecisionCollections)
    /\ calls' = Append(calls, NextCall)
    /\ port_out' = Append(port_out, [raised |-> TRUE, results |-> <<>>])
    /\ all_results' = all_results
    /\ results' = MergeResults(all_results, top_k)
    /\ pc' = "retrieved"
    /\ UNCHANGED <<component, llm_calls, routed, provider, query, top_k, llm_raw, route_outcome, decision, shown,
                   gen_raw, gen_outcome, gen_error, answer, response, routing_agent,
                   answer_generator, self_decision, prop_ret>>

\* one iteration of the loop: retrieve() raises; logged, the loop continues
RetrieveRaises ==
    /\ pc = "retrieve"
    /\ Len(calls) < Len(DecisionCollections)
    /\ calls' = Append(calls, NextCall)
    /\ port_out' = Append(port_out, [raised |-> TRUE, results |-> <<>>])
    /\ LoopStep(all_results)
    /\ UNCHANGED <<component, llm_calls, routed, provider, query, top_k, llm_raw, route_outcome, decision, shown,
                   gen_raw, gen_outcome, gen_error, answer, response, routing_agent,
                   answer_generator, self_decision, prop_ret>>

\* an empty result list answered with the error page
PostNoResultsError ==
    /\ pc = "retrieved"
    /\ results = <<>>
    /\ response' = "error"
    /\ pc' = "done"
    /\ UNCHANGED <<component, llm_calls, routed, provider, query, top_k, llm_raw, route_outcome, decision, calls,
                   port_out, all_results, results, shown, gen_raw, gen_outcome, gen_error,
                   answer, routing_agent, answer_generator, self_decision, prop_ret>>

\* an empty result list handed to generate(), whose early return is rendered
PostNoResultsAnswers ==
    /\ pc = "retrieved"
    /\ results = <<>>
    /\ answer' = Some(AnswerWithCitations(NoInfoAnswer, 0, <<>>,
                                          <<"Pas de resultats de recherche fournis">>))
    /\ response' = "answer"
    /\ pc' = "done"
    /\ UNCHANGED <<component, llm_calls, routed, provider, query, top_k, llm_raw, route_outcome, decision, calls,
                   port_out, all_results, results, shown, gen_raw, gen_outcome, gen_error,
                   routing_agent, answer_generator, self_decision, prop_ret>>

\* post(): no results, the "No results found" page
PostNoResults ==
    /\ pc = "retrieved"
    /\ results = <<>>
    /\ response' = "no_results"
    /\ pc' = "done"
    /\ UNCHANGED <<component, llm_calls, routed, provider, query, top_k, llm_raw, route_outcome, decision, calls,
                   port_out, all_results, results, shown, gen_raw, gen_outcome, gen_error,
                   answer, routing_agent, answer_generator, self_decision, prop_ret>>

\* post(): get_answer_generator(), then generate() builds the context and calls
\* the generation service
PostGenerate ==
    /\ pc = "retrieved"
    /\ results # <<>>
    /\ answer_generator' = GetSingleton(answer_generator)
    /\ shown' = ContextOf(results)
    /\ pc' = "llm_generate"
    /\ UNCHANGED <<component, llm_calls, routed, provider, query, top_k, llm_raw, route_outcome, decision, calls,
                   port_out, all_results, results, gen_raw, gen_outcome, gen_error, answer,
                   response, routing_agent, self_decision, prop_ret>>

\* generate() has called the generation service once and returns a; post()
\* builds the answer page
Generated(outcome, raw, err, a) ==
    /\ gen_raw' = raw
    /\ gen_error' = err
    /\ gen_outcome' = outcome
    /\ llm_calls' = [llm_calls EXCEPT !.generation = @ + 1]
    /\ answer' = Some(a)
    /\ response' = "answer"
    /\ pc' = "done"
    /\ UNCHANGED <<component, routed, provider, query, top_k, llm_raw, route_outcome, decision, calls,
                   port_out, all_results, results, shown, routing_agent,
                   answer_generator, self_decision, prop_ret>>

\* a fallback answer that embeds the whole error message
GenerationFallbackUntruncated(msg) ==
    AnswerWithCitations(FallbackAnswer, 0, <<>>,
                        <<"Erreur lors de la generation: ">> \o msg)

\* the answer generate() returns when the generation call fails with message msg;
\* a reasoning is a sequence of strings, here a fixed head and the characters kept
GenerationFallback(msg) ==
    AnswerWithCitations(FallbackAnswer, 0, <<>>,
                        <<"Erreur lors de la generation: ">> \o Take(msg, ErrorCap))

\* the service's output is parsed; the citation indices are validated
LlmGenerateParsed ==
    /\ pc = "llm_generate"
    /\ \E raw \in GenResponses :
        /\ AnswerValid(raw.confidence)
        /\ Generated("parsed", Some(raw), None,
                     [raw EXCEPT !.citation_indices = ValidIndices(@, results)])

\* the service's output violates the AnswerWithCitations schema
LlmGenerateSchemaViolation ==
    /\ pc = "llm_generate"
    /\ \E raw \in BadGenResponses :
        /\ ~AnswerValid(raw.confidence)
        /\ Generated("schema_violation", Some(raw), Some(ValidationMessage),
                     GenerationFallback(ValidationMessage))

\* an exception of the generation call that leaves generate(): the handler's
\* except branch returns the error page
LlmGenerateExceptionEscapes ==
    /\ pc = "llm_generate"
    /\ \E msg \in ErrorMessages :
        /\ gen_error' = Some(msg)
    /\ gen_outcome' = "exception"
    /\ llm_calls' = [llm_calls EXCEPT !.generation = @ + 1]
    /\ response' = "error"
    /\ pc' = "done"
    /\ UNCHANGED <<component, routed, provider, query, top_k, llm_raw, route_outcome, decision, calls,
                   port_out, all_results, results, shown, gen_raw, answer, routing_agent,
                   answer_generator, self_decision, prop_ret>>

\* the call raises
LlmGenerateException ==
    /\ pc = "llm_generate"
    /\ \E msg \in ErrorMessages :
        Generated("exception", None, Some(msg), GenerationFallback(msg))

\* the service refuses: parsed is None and answer.citation_indices raises
LlmGenerateRefusal ==
    /\ pc = "llm_generate"
    /\ Generated("refusal", None, Some(RefusalMessage), GenerationFallback(RefusalMessage))

Next ==
    \/ PostBlankQuery
    \/ PostAgentError
    \/ PostRoute
    \/ LlmRouteParsed
    \/ LlmRouteSchemaViolation
    \/ LlmRouteException
    \/ LlmRouteRefusal
    \/ RetrieveReturns
    \/ RetrieveRaises
    \/ PostNoResults
    \/ PostGenerate
    \/ LlmGenerateParsed
    \/ LlmGenerateSchemaViolation
    \/ LlmGenerateException
    \/ LlmGenerateRefusal

Spec == Init /\ [][Next]_vars

\* The handler runs in its own thread and every external call returns or raises:
\* a step that is possible is eventually taken
SpecLive == Init /\ [][Next]_vars /\ WF_vars(Next)

----------------------------------------------------------------------------
(* The collections property applied to any RoutingDecision object, whatever *)
(* its strategy field holds                                                 *)

InitProperty ==
    /\ pc = "getter"
    /\ self_decision \in
         { Some(RoutingDecision(s, i, r)) :
             s \in StrategyStrings, i \in IdccValues,
             r \in Reasonings \cup {FallbackReasoning} }
    /\ prop_ret = None
    /\ provider = "openai"
    /\ query = <<>>
    /\ top_k = 0
    /\ llm_raw = None
    /\ route_outcome = "none"
    /\ decision = None
    /\ calls = <<>>
    /\ port_out = <<>>
    /\ all_results = <<>>
    /\ results = <<>>
    /\ shown = <<>>
    /\ gen_raw = None
    /\ gen_outcome = "none"
    /\ answer = None
    /\ response = "none"
    /\ routing_agent = None
    /\ answer_generator = None
    /\ gen_error = None
    /\ ctor_args = None
    /\ callers = <<>>
    /\ built = NoneBuilt
    /\ llm_calls = NoCalls
    /\ routed = <<>>

\* self.collections is read
CollectionsGet ==
    /\ pc = "getter"
    /\ prop_ret' = Some(Collections(self_decision[1].strategy))
    /\ pc' = "getter_done"
    /\ UNCHANGED <<component, llm_calls, routed, provider, query, top_k, llm_raw, route_outcome, decision, calls,
                   port_out, all_results, results, shown, gen_raw, gen_outcome, gen_error,
                   answer, response, routing_agent, answer_generator, self_decision>>

NextProperty == CollectionsGet

SpecProperty == InitProperty /\ [][NextProperty]_vars

----------------------------------------------------------------------------
(* The request up to the return of retrieve_with_routing: route(), then the *)
(* loop over the collections of the decision, the sort and the cap          *)

InitRetrieve ==
    /\ Init
    /\ provider = "openai"

NextRetrieve ==
    \/ PostRoute
    \/ LlmRouteParsed
    \/ LlmRouteSchemaViolation
    \/ LlmRouteException
    \/ LlmRouteRefusal
    \/ RetrieveReturns
    \/ RetrieveRaises

SpecRetrieve == InitRetrieve /\ [][NextRetrieve]_vars

----------------------------------------------------------------------------
(* RoutingAgent.route called several times in a row on one query for which  *)
(* the classification service gives the same response each time: a          *)
(* structured output (llm_raw), or none when the call raises                *)

InitRoute ==
    /\ pc = "route"
    /\ query \in Queries
    /\ llm_raw \in {None} \cup { Some(raw) : raw \in RawDecisions }
    /\ routing_agent = Some("instance")
    /\ provider = "openai"
    /\ top_k = 0
    /\ route_outcome = "none"
    /\ decision = None
    /\ calls = <<>>
    /\ port_out = <<>>
    /\ all_results = <<>>
    /\ results = <<>>
    /\ shown = <<>>
    /\ gen_raw = None
    /\ gen_outcome = "none"
    /\ gen_error = None
    /\ answer = None
    /\ response = "none"
    /\ answer_generator = None
    /\ self_decision = None
    /\ prop_ret = None
    /\ ctor_args = None
    /\ callers = <<>>
    /\ built = NoneBuilt
    /\ llm_calls = NoCalls
    /\ routed = <<>>

\* a route() that returns the service's decision with an empty idcc cleared
RouteReturnNormalised(raw) ==
    IF raw # None /\ RoutingDecisionValid(raw[1].strategy)
    THEN [raw[1] EXCEPT !.idcc = IF @ = Some("") THEN None ELSE @]
    ELSE FallbackDecision

\* what route() returns when the service's response is raw
RouteReturn(raw) ==
    IF raw # None /\ RoutingDecisionValid(raw[1].strategy)
    THEN raw[1]
    ELSE FallbackDecision

\* one call of route(): one call of the service, the decision is returned; the
\* agent object and the module globals are only read
RouteReturns(outcome) ==
    /\ pc = "route"
    /\ Len(routed) < MaxRouteCalls
    /\ llm_calls' = [llm_calls EXCEPT !.classification = @ + 1]
    /\ route_outcome' = outcome
    /\ decision' = Some(RouteReturn(llm_raw))
    /\ routed' = Append(routed, RouteReturn(llm_raw))
    /\ UNCHANGED <<component, pc, provider, query, top_k, llm_raw, calls, port_out, all_results,
                   results, shown, gen_raw, gen_outcome, gen_error, answer, response,
                   routing_agent, answer_generator, self_decision, prop_ret>>

\* the service's output passes validation
RouteParsed ==
    /\ llm_raw # None
    /\ RoutingDecisionValid(llm_raw[1].strategy)
    /\ RouteReturns("parsed")

\* the service's output violates the schema: the except branch
RouteSchemaViolation ==
    /\ llm_raw # None
    /\ ~RoutingDecisionValid(llm_raw[1].strategy)
    /\ RouteReturns("schema_violation")

\* the call raises: the except branch
RouteException ==
    /\ llm_raw = None
    /\ RouteReturns("exception")

NextRoute ==
    \/ RouteParsed
    \/ RouteSchemaViolation
    \/ RouteException

SpecRoute == InitRoute /\ [][NextRoute]_vars

----------------------------------------------------------------------------
(* AnswerGenerator.generate called directly on any merged passage list, and *)
(* the AnswerWithCitations constructor called with or without the optional  *)
(* fields                                                                   *)

\* merged lists of 0 to 2 * MaxRet passages from both collections
GenerateInputs ==
    { SortByScoreDesc(
          TagResults(PortResults("code_travail", a), "code_travail", None)
          \o TagResults(PortResults("kali", b), "kali", Some("1486"))) :
        a \in PortScoreLists, b \in PortScoreLists }

\* the keys _build_context reads with result[...], in the order it reads them
ContextKeys == <<"metadata", "collection", "content">>

\* the dictionary r without one key
Without(r, key) == [ f \in DOMAIN r \ {key} |-> r[f] ]

\* merged lists in which one passage lacks its metadata mapping or its collection tag
MalformedInputs ==
    UNION { { [rs EXCEPT ![i] = Without(rs[i], key)] :
                i \in 1..Len(rs), key \in {"metadata", "collection"} } :
            rs \in GenerateInputs }

\* the keys of ContextKeys that passage r lacks, in reading order
MissingKeys(r) == SelectSeq(ContextKeys, LAMBDA key : key \notin DOMAIN r)

\* _build_context(ctx) raises KeyError at the first passage lacking a key it reads
ContextBuildable(ctx) == \A i \in 1..Len(ctx) : MissingKeys(ctx[i]) = <<>>

\* str(e) of that KeyError: the repr of the first key found missing
KeyErrorMessage(ctx) ==
    LET i == CHOOSE k \in 1..Len(ctx) :
                 /\ MissingKeys(ctx[k]) # <<>>
                 /\ \A j \in 1..(k - 1) : MissingKeys(ctx[j]) = <<>>
    IN  <<"'", Head(MissingKeys(ctx[i])), "'">>

\* the confidence keyword: omitted, or a value in tenths on either side of the bounds
ConfidenceArgs == {None} \cup { Some(c) : c \in {0 - 1, 0, 7, 10, 11} }

\* the citation_indices keyword: omitted, or a list
CitationArgs == {None, Some(<<>>), Some(<<0, 1>>)}

ConstructorArgs ==
    [confidence : ConfidenceArgs, citation_indices : CitationArgs]

InitGenerate ==
    /\ \/ /\ pc = "generate"
          /\ results \in GenerateInputs \cup MalformedInputs
          /\ ctor_args = None
       \/ /\ pc = "construct"
          /\ results = <<>>
          /\ ctor_args \in { Some(kw) : kw \in ConstructorArgs }
    /\ provider = "openai"
    /\ query = <<"q">>
    /\ top_k = 0
    /\ llm_raw = None
    /\ route_outcome = "none"
    /\ decision = None
    /\ calls = <<>>
    /\ port_out = <<>>
    /\ all_results = <<>>
    /\ shown = <<>>
    /\ gen_raw = None
    /\ gen_outcome = "none"
    /\ gen_error = None
    /\ answer = None
    /\ response = "none"
    /\ routing_agent = None
    /\ answer_generator = Some("instance")
    /\ self_decision = None
    /\ prop_ret = None
    /\ callers = <<>>
    /\ built = NoneBuilt
    /\ llm_calls = NoCalls
    /\ routed = <<>>

\* an empty list that is sent to the generation service all the same
GenerateEmptyCallsService ==
    /\ pc = "generate"
    /\ results = <<>>
    /\ shown' = ContextOf(results)
    /\ pc' = "llm_generate"
    /\ UNCHANGED <<component, llm_calls, routed, provider, query, top_k, llm_raw, route_outcome, decision, calls,
                   port_out, all_results, results, gen_raw, gen_outcome, gen_error, answer,
                   response, routing_agent, answer_generator, self_decision, prop_ret>>

\* generate(): `if not results`, the early return without any call
GenerateEmpty ==
    /\ pc = "generate"
    /\ results = <<>>
    /\ answer' = Some(AnswerWithCitations(NoInfoAnswer, 0, <<>>,
                                          <<"Pas de resultats de recherche fournis">>))
    /\ pc' = "done"
    /\ UNCHANGED <<component, llm_calls, routed, provider, query, top_k, llm_raw, route_outcome, decision, calls,
                   port_out, all_results, results, shown, gen_raw, gen_outcome, gen_error,
                   response, routing_agent, answer_generator, self_decision, prop_ret>>

\* generate(): the context is built from well-formed passages and the generation
\* service is called
GenerateCallService ==
    /\ pc = "generate"
    /\ results # <<>>
    /\ ContextBuildable(ContextOf(results))
    /\ shown' = ContextOf(results)
    /\ pc' = "llm_generate"
    /\ UNCHANGED <<component, llm_calls, routed, provider, query, top_k, llm_raw, route_outcome, decision, calls,
                   port_out, all_results, results, gen_raw, gen_outcome, gen_error, answer,
                   response, routing_agent, answer_generator, self_decision, prop_ret>>

\* generate(): _build_context(results[:3]) raises KeyError before the try block
\* is entered; the exception leaves generate()
GenerateBuildContextRaises ==
    /\ pc = "generate"
    /\ results # <<>>
    /\ ~ContextBuildable(ContextOf(results))
    /\ gen_error' = Some(KeyErrorMessage(ContextOf(results)))
    /\ pc' = "raised"
    /\ UNCHANGED <<component, llm_calls, routed, provider, query, top_k, llm_raw, route_outcome, decision, calls,
                   port_out, all_results, results, shown, gen_raw, gen_outcome, answer,
                   response, routing_agent, answer_generator, self_decision, prop_ret>>

\* the value a keyword takes: the one given, or the field's default
FieldValue(arg, default) == IF arg = None THEN default ELSE arg[1]

\* the object the constructor builds from the keywords in hand
Constructed ==
    AnswerWithCitations("Test",
                        FieldValue(ctor_args[1].confidence, DefaultConfidence),
                        FieldValue(ctor_args[1].citation_indices, <<>>),
                        <<"Test">>)

\* AnswerWithCitations(...): the fields validate, the object exists
ConstructAnswer ==
    /\ pc = "construct"
    /\ AnswerValid(Constructed.confidence)
    /\ answer' = Some(Constructed)
    /\ pc' = "constructed"
    /\ UNCHANGED <<component, llm_calls, routed, provider, query, top_k, llm_raw, route_outcome, decision, calls,
                   port_out, all_results, results, shown, gen_raw, gen_outcome, gen_error,
                   response, routing_agent, answer_generator, self_decision, prop_ret>>

\* AnswerWithCitations(...): validation raises, no object exists
ConstructAnswerRejected ==
    /\ pc = "construct"
    /\ ~AnswerValid(Constructed.confidence)
    /\ pc' = "rejected"
    /\ UNCHANGED <<component, llm_calls, routed, provider, query, top_k, llm_raw, route_outcome, decision, calls,
                   port_out, all_results, results, shown, gen_raw, gen_outcome, gen_error,
                   answer, response, routing_agent, answer_generator, self_decision,
                   prop_ret>>

NextGenerate ==
    \/ GenerateEmpty
    \/ GenerateCallService
    \/ GenerateBuildContextRaises
    \/ LlmGenerateParsed
    \/ LlmGenerateSchemaViolation
    \/ LlmGenerateException
    \/ LlmGenerateRefusal
    \/ ConstructAnswer
    \/ ConstructAnswerRejected

SpecGenerate == InitGenerate /\ [][NextGenerate]_vars

----------------------------------------------------------------------------
(* get_routing_agent() and get_answer_generator() called from the threads   *)
(* that serve concurrent requests.  A thread may be preempted between the   *)
(* test of the module global, the constructor call, the assignment to the   *)
(* global and the read of the global for the return value.                  *)

\* a thread about to call the getter of kind g
Caller(g) == [kind |-> g, pc |-> "call", made |-> None, ret |-> None]

InitSingleton ==
    /\ pc = "threads"
    /\ callers \in UNION { [1..n -> { Caller(g) : g \in GetterKinds }] : n \in 1..MaxThreads }
    /\ built = NoneBuilt
    /\ llm_calls = NoCalls
    /\ routed = <<>>
    /\ routing_agent = None
    /\ answer_generator = None
    /\ provider = "openai"
    /\ query = <<>>
    /\ top_k = 0
    /\ llm_raw = None
    /\ route_outcome = "none"
    /\ decision = None
    /\ calls = <<>>
    /\ port_out = <<>>
    /\ all_results = <<>>
    /\ results = <<>>
    /\ shown = <<>>
    /\ gen_raw = None
    /\ gen_outcome = "none"
    /\ gen_error = None
    /\ answer = None
    /\ response = "none"
    /\ self_decision = None
    /\ prop_ret = None
    /\ ctor_args = None

\* the module global a getter of kind g works on
Global(g) == IF g = "routing_agent" THEN routing_agent ELSE answer_generator

\* thread t moves on; the globals and the constructor counts stay
CallerStep(t, c) ==
    /\ callers' = [callers EXCEPT ![t] = c]
    /\ UNCHANGED <<pc, provider, query, top_k, llm_raw, route_outcome, decision, calls,
                   port_out, all_results, results, shown, gen_raw, gen_outcome, gen_error,
                   answer, response, self_decision, prop_ret, ctor_args, llm_calls, routed>>

\* `if _x is None`: the global is None, the thread goes on to construct
GetterTestsNone ==
    \E t \in DOMAIN callers :
        /\ callers[t].pc = "call"
        /\ Global(callers[t].kind) = None
        /\ CallerStep(t, [callers[t] EXCEPT !.pc = "construct"])
        /\ UNCHANGED <<built, routing_agent, answer_generator>>

\* `if _x is None`: the global is set, the thread goes on to return it
GetterTestsSet ==
    \E t \in DOMAIN callers :
        /\ callers[t].pc = "call"
        /\ Global(callers[t].kind) # None
        /\ CallerStep(t, [callers[t] EXCEPT !.pc = "return"])
        /\ UNCHANGED <<built, routing_agent, answer_generator>>

\* RoutingAgent() / AnswerGenerator(): a new object, the n-th of its kind
GetterConstructs ==
    \E t \in DOMAIN callers :
        LET g == callers[t].kind
        IN  /\ callers[t].pc = "construct"
            /\ built' = [built EXCEPT ![g] = @ + 1]
            /\ CallerStep(t, [callers[t] EXCEPT !.pc = "store",
                                                !.made = Some(<<g, built[g] + 1>>)])
            /\ UNCHANGED <<routing_agent, answer_generator>>

\* `_x = ...`: the new object is assigned to the global
GetterStores ==
    \E t \in DOMAIN callers :
        /\ callers[t].pc = "store"
        /\ IF callers[t].kind = "routing_agent"
           THEN routing_agent' = callers[t].made /\ UNCHANGED answer_generator
           ELSE answer_generator' = callers[t].made /\ UNCHANGED routing_agent
        /\ CallerStep(t, [callers[t] EXCEPT !.pc = "return"])
        /\ UNCHANGED built

\* `return _x`: the global is read again
GetterReturns ==
    \E t \in DOMAIN callers :
        /\ callers[t].pc = "return"
        /\ CallerStep(t, [callers[t] EXCEPT !.pc = "returned",
                                            !.ret = Global(callers[t].kind)])
        /\ UNCHANGED <<built, routing_agent, answer_generator>>

NextSingleton ==
    \/ GetterTestsNone
    \/ GetterTestsSet
    \/ GetterConstructs
    \/ GetterStores
    \/ GetterReturns

SpecSingleton == InitSingleton /\ [][NextSingleton]_vars

----------------------------------------------------------------------------
(* Properties *)

\* retrieve_with_routing has returned to post()
Retrieved == pc \in {"retrieved", "llm_generate", "done"} /\ calls # <<>>

\* the classification call of this request failed
RoutingFailed == route_outcome \in {"schema_violation", "exception", "refusal"}

ScoresOf(rs) == [ i \in 1..Len(rs) |-> rs[i].score ]

\* a result without the Merger's tags
Untagged(rs) ==
    [ i \in 1..Len(rs) |->
        [content |-> rs[i].content, metadata |-> rs[i].metadata, score |-> rs[i].score] ]

Occurrences(scs, v) == Cardinality({ i \in DOMAIN scs : scs[i] = v })

\* the scores of scs from v downwards, each as often as it occurs in scs
RECURSIVE DescendingFrom(_, _)
DescendingFrom(scs, v) ==
    IF v < 1 THEN <<>>
    ELSE [ i \in 1..Occurrences(scs, v) |-> v ] \o DescendingFrom(scs, v - 1)

\* C1: for each of the four strategy values the collections property returns the
\* table's ordered list (code_only -> [code_travail], kali_only -> [kali],
\* both_code_first -> [code_travail, kali], both_kali_first -> [kali, code_travail]),
\* of 1 or 2 distinct collections, whatever idcc and reasoning hold.
C1_CollectionsTable ==
    (pc = "getter_done" /\ self_decision[1].strategy \in Strategies) =>
        LET st == self_decision[1].strategy
            c == prop_ret[1]
        IN  /\ prop_ret # None
            /\ st = "code_only" => c = <<"code_travail">>
            /\ st = "kali_only" => c = <<"kali">>
            /\ st = "both_code_first" => c = <<"code_travail", "kali">>
            /\ st = "both_kali_first" => c = <<"kali", "code_travail">>
            /\ Len(c) \in {1, 2}
            /\ \A i, j \in 1..Len(c) : i # j => c[i] # c[j]

C1_Witness ==
    /\ pc = "getter_done"
    /\ self_decision = Some(RoutingDecision("both_kali_first", Some("1486"),
                                            "General legal question"))
    /\ prop_ret = Some(<<"kali", "code_travail">>)

\* C2: read on an object whose strategy is none of the four tags, the collections
\* property returns [code_travail]: it returns normally and never the empty list.
C2_UnknownStrategyDefaults ==
    (pc = "getter_done" /\ self_decision[1].strategy \notin Strategies) =>
        prop_ret = Some(<<"code_travail">>)

C2_Witness ==
    /\ pc = "getter_done"
    /\ self_decision[1].strategy = "invalid_strategy"
    /\ prop_ret # None
    /\ prop_ret[1] # <<>>

\* C3: a RoutingDecision built from a strategy outside the four tags is rejected
\* by validation, and every RoutingDecision the program holds has one of the four.
C3_StrategyClosedSet ==
    /\ decision # None => decision[1].strategy \in Strategies
    /\ (llm_raw # None /\ llm_raw[1].strategy \notin Strategies) =>
           route_outcome = "schema_violation"

C3_Witness ==
    /\ llm_raw # None
    /\ llm_raw[1].strategy = "invalid_strategy"
    /\ route_outcome = "schema_violation"
    /\ decision # None
    /\ decision[1].strategy = "code_only"

\* C4: whenever the classification call fails (exception, refusal, output violating
\* the schema), route() returns, without raising, the decision code_only with a null
\* idcc, collections [code_travail] and the reasoning flagged as a fallback.
C4_RouterFallback ==
    RoutingFailed =>
        /\ decision = Some([strategy |-> "code_only", idcc |-> None,
                            reasoning |-> "Fallback: LLM error"])
        /\ DecisionCollections = <<"code_travail">>
        /\ response # "error"

C4_Witness ==
    /\ route_outcome = "exception"
    /\ pc = "retrieve"
    /\ decision # None
    /\ decision[1].reasoning = FallbackReasoning

\* C5 as stated: for every non-null idcc, any string, the call for kali carries the
\* filter meta.idcc = idcc and the call for code_travail carries none.
C5_FilterForAnyNonNullIdcc ==
    \A i \in 1..Len(calls) :
        decision[1].idcc # None =>
            /\ calls[i].collection_name = "kali" =>
                   calls[i].filters =
                       Some([key |-> "meta.idcc", value |-> decision[1].idcc[1]])
            /\ calls[i].collection_name = "code_travail" => calls[i].filters = None

\* C5 amended: for every idcc that is neither null nor the empty string, the call
\* for kali carries the filter meta.idcc = idcc exactly, and the call for
\* code_travail carries none.
C5_FilterForNonEmptyIdcc ==
    \A i \in 1..Len(calls) :
        (decision[1].idcc # None /\ decision[1].idcc[1] # "") =>
            /\ calls[i].collection_name = "kali" =>
                   calls[i].filters =
                       Some([key |-> "meta.idcc", value |-> decision[1].idcc[1]])
            /\ calls[i].collection_name = "code_travail" => calls[i].filters = None

C5_Witness ==
    /\ Len(calls) = 2
    /\ decision[1].idcc = Some("1979")
    /\ calls[1].collection_name = "code_travail"
    /\ calls[1].filters = None
    /\ calls[2].collection_name = "kali"
    /\ calls[2].filters = Some([key |-> "meta.idcc", value |-> "1979"])

\* C6: when idcc is null, every call to retrieve() has filters = None, for every
\* strategy, the ones that query kali included.
C6_NoFilterWhenIdccNull ==
    \A i \in 1..Len(calls) :
        decision[1].idcc = None => calls[i].filters = None

C6_Witness ==
    /\ Len(calls) = 2
    /\ decision[1].idcc = None
    /\ decision[1].strategy = "both_kali_first"
    /\ calls[1].collection_name = "kali"
    /\ calls[1].filters = None

\* C7: when both collections return lists, the scores returned are the first top_k
\* of all their scores in descending order, and they are the same had the two
\* lists been collected in the other order.
C7_MergeSort ==
    (Retrieved /\ Len(port_out) = 2 /\ ~port_out[1].raised /\ ~port_out[2].raised) =>
        LET A == port_out[1].results
            B == port_out[2].results
            idcc == decision[1].idcc
            swapped == TagResults(B, calls[2].collection_name, idcc)
                       \o TagResults(A, calls[1].collection_name, idcc)
        IN  /\ ScoresOf(results) =
                   Take(DescendingFrom(ScoresOf(A) \o ScoresOf(B), MaxScore), top_k)
            /\ ScoresOf(results) = ScoresOf(MergeResults(swapped, top_k))

C7_Witness ==
    /\ Retrieved
    /\ Len(port_out) = 2
    /\ ScoresOf(port_out[1].results) = <<2, 1>>
    /\ ScoresOf(port_out[2].results) = <<2>>
    /\ top_k = 3
    /\ ScoresOf(results) = <<2, 2, 1>>

\* the number of passages fetched from the calls that did not fail
RECURSIVE Fetched(_)
Fetched(outs) ==
    IF outs = <<>> THEN 0 ELSE Len(Head(outs).results) + Fetched(Tail(outs))

\* C8: whatever the decision, the Port's responses and failures, the list returned
\* has min(top_k, passages fetched) elements, so at most top_k, in non-increasing
\* score order.
C8_CappedAndSorted ==
    Retrieved =>
        /\ Len(results) <= top_k
        /\ Len(results) = Min(top_k, Fetched(port_out))
        /\ \A i \in 1..(Len(results) - 1) : results[i].score >= results[i + 1].score

C8_Witness ==
    /\ Retrieved
    /\ top_k = 2
    /\ Fetched(port_out) = 4
    /\ Len(results) = 2

\* C9: every citation index of a returned answer is at least 0 and below the
\* number of passages shown to the generation service, min(3, len(results)).
C9_CitationsWithinShown ==
    answer # None =>
        \A i \in 1..Len(answer[1].citation_indices) :
            /\ 0 <= answer[1].citation_indices[i]
            /\ answer[1].citation_indices[i] < Len(shown)

\* C10: when the second of two calls raises, retrieve_with_routing returns, without
\* raising, the first collection's results in the Port's order, capped at top_k.
C10_SecondCallFails ==
    (Retrieved /\ Len(port_out) = 2 /\ ~port_out[1].raised /\ port_out[2].raised) =>
        /\ Untagged(results) = Take(port_out[1].results, top_k)
        /\ \A i \in 1..Len(results) : results[i].collection = calls[1].collection_name
        /\ response # "error"

C10_Witness ==
    /\ Retrieved
    /\ Len(port_out) = 2
    /\ port_out[2].raised
    /\ ScoresOf(port_out[1].results) = <<2, 2>>
    /\ top_k = 1
    /\ Len(results) = 1
    /\ results[1].content = <<"kali", 1>>

\* C11: when the decision names two collections and the first call raises, the
\* second collection is still queried, with the filter its own rule gives it, and
\* the returned list is the second call's results, capped at top_k.
C11_FirstCallFails ==
    (Retrieved /\ Len(DecisionCollections) = 2 /\ port_out[1].raised) =>
        /\ Len(calls) = 2
        /\ calls[2].collection_name = DecisionCollections[2]
        /\ calls[2].collection_name # calls[1].collection_name
        /\ calls[2].filters =
               (IF calls[2].collection_name = "kali"
                   /\ decision[1].idcc \notin {None, Some("")}
                THEN Some([key |-> "meta.idcc", value |-> decision[1].idcc[1]])
                ELSE None)
        /\ Untagged(results) = Take(port_out[2].results, top_k)
        /\ \A i \in 1..Len(results) : results[i].collection = calls[2].collection_name
        /\ response # "error"

C11_Witness ==
    /\ Retrieved
    /\ Len(port_out) = 2
    /\ port_out[1].raised
    /\ ~port_out[2].raised
    /\ calls[2].collection_name = "kali"
    /\ calls[2].filters # None
    /\ Len(port_out[2].results) = 2
    /\ top_k = 1
    /\ Len(results) = 1

\* C12: when every call of the request raised or returned the empty list,
\* retrieve_with_routing returns the empty list and the handler answers with the
\* "no results" page, not with the error page.
C12_TotalRetrievalFailure ==
    (Retrieved /\ \A i \in 1..Len(port_out) :
                    port_out[i].raised \/ port_out[i].results = <<>>) =>
        /\ results = <<>>
        /\ all_results = <<>>
        /\ response # "error"
        /\ pc # "llm_generate"
        /\ pc = "done" => response = "no_results"

C12_Witness ==
    /\ pc = "done"
    /\ Len(port_out) = 2
    /\ port_out[1].raised
    /\ ~port_out[2].raised
    /\ port_out[2].results = <<>>
    /\ results = <<>>
    /\ response = "no_results"

\* C13: whatever the length n of the merged list, the context given to the
\* generation service is built from its first min(3, n) passages, in rank order;
\* the passage at position 4 or later is never part of it.
C13_ContextCap ==
    (pc = "llm_generate" \/ gen_outcome # "none") =>
        /\ Len(shown) = (IF Len(results) < 3 THEN Len(results) ELSE 3)
        /\ \A i \in 1..Len(shown) : shown[i] = results[i]
        /\ \A i \in 4..Len(results) : \A j \in 1..Len(shown) : shown[j] # results[i]

C13_Witness ==
    /\ pc = "llm_generate"
    /\ Len(results) = 4
    /\ Len(shown) = 3
    /\ shown[3] = results[3]

\* C14: generate called with the empty list returns the fixed "no information"
\* answer with confidence 0.0 and no citation, and the generation service is not
\* invoked: it is only ever invoked for a non-empty list.
C14_EmptyInputShortCircuit ==
    /\ (pc = "llm_generate" \/ gen_outcome # "none") => results # <<>>
    /\ (ctor_args = None /\ pc = "done" /\ results = <<>>) =>
          /\ answer # None
          /\ answer[1].answer =
                 "Aucune information disponible pour repondre a cette question."
          /\ answer[1].confidence = 0
          /\ answer[1].citation_indices = <<>>
          /\ gen_outcome = "none"
          /\ gen_raw = None
          /\ gen_error = None
          /\ shown = <<>>

C14_Witness ==
    /\ ctor_args = None
    /\ pc = "done"
    /\ results = <<>>
    /\ answer # None
    /\ answer[1].confidence = 0

\* C15: when the generation call raises or its output does not conform, generate
\* returns the fixed fallback text with confidence 0.0 and no citation, and its
\* reasoning holds the first 100 characters of the error's description at most.
C15_GenerationFailure ==
    gen_outcome \in {"schema_violation", "exception", "refusal"} =>
        /\ pc = "done"
        /\ response # "error"
        /\ gen_error # None
        /\ answer # None
        /\ answer[1].answer = "Je n'ai pas pu generer une reponse a cette question."
        /\ answer[1].confidence = 0
        /\ answer[1].citation_indices = <<>>
        /\ Head(answer[1].reasoning) = "Erreur lors de la generation: "
        /\ Len(Tail(answer[1].reasoning)) =
               (IF Len(gen_error[1]) < 100 THEN Len(gen_error[1]) ELSE 100)
        /\ \A i \in 1..Len(Tail(answer[1].reasoning)) :
               Tail(answer[1].reasoning)[i] = gen_error[1][i]

C15_Witness ==
    /\ gen_outcome = "exception"
    /\ Len(gen_error[1]) = 101
    /\ answer # None
    /\ Len(answer[1].reasoning) = 101
    /\ answer[1].reasoning[101] = "x"

C18_ConfidenceBounds ==
    /\ answer # None => 0 <= answer[1].confidence /\ answer[1].confidence <= 10
    /\ pc \in {"constructed", "rejected"} =>
          LET kw == ctor_args[1]
          IN  /\ (kw.confidence # None
                    /\ (kw.confidence[1] < 0 \/ kw.confidence[1] > 10)) <=>
                  pc = "rejected"
              /\ pc = "rejected" => answer = None
              /\ pc = "constructed" =>
                    /\ answer # None
                    /\ kw.confidence = None => answer[1].confidence = 7
                    /\ kw.confidence # None =>
                          answer[1].confidence = kw.confidence[1]
                    /\ kw.citation_indices = None =>
                          answer[1].citation_indices = <<>>
                    /\ kw.citation_indices # None =>
                          answer[1].citation_indices = kw.citation_indices[1]

C18_Witness ==
    /\ pc = "constructed"
    /\ ctor_args[1].confidence = None
    /\ ctor_args[1].citation_indices = None
    /\ answer[1].confidence = 7
    /\ answer[1].citation_indices = <<>>

\* the passages gathered by the first n calls, tagged, in call order
RECURSIVE Gathered(_)
Gathered(n) ==
    IF n = 0 THEN <<>>
    ELSE Gathered(n - 1)
         \o TagResults(port_out[n].results, calls[n].collection_name, decision[1].idcc)

\* C20: within a request no call of the Retrieval Port is made before route() has
\* returned a decision, the generation service is not invoked before every call of
\* the decision has finished, and generate() receives the Merger's output for that
\* decision; an answer exists only after these stages, in this order.
C20_RequestOrdering ==
    /\ pc \in {"idle", "llm_route"} =>
          decision = None /\ calls = <<>> /\ gen_outcome = "none" /\ answer = None
    /\ calls # <<>> => decision # None /\ route_outcome # "none"
    /\ pc = "retrieve" =>
          /\ decision # None
          /\ Len(calls) < Len(DecisionCollections)
          /\ shown = <<>> /\ gen_outcome = "none" /\ answer = None
    /\ pc = "retrieved" => shown = <<>> /\ gen_outcome = "none" /\ answer = None
    /\ (pc = "llm_generate" \/ gen_outcome # "none" \/ answer # None) =>
          /\ decision # None
          /\ Len(calls) = Len(DecisionCollections)
          /\ Len(port_out) = Len(calls)
          /\ \A i \in 1..Len(calls) : calls[i].collection_name = DecisionCollections[i]
          /\ all_results = Gathered(Len(calls))
          /\ results = MergeResults(all_results, top_k)
          /\ results # <<>>
          /\ shown = Take(results, 3)
    /\ answer # None => gen_outcome # "none" /\ pc = "done"

C20_Witness ==
    /\ pc = "done"
    /\ response = "answer"
    /\ gen_outcome = "parsed"
    /\ Len(calls) = 2
    /\ ~port_out[1].raised /\ ~port_out[2].raised
    /\ Len(all_results) = 4
    /\ Len(results) = 3

\* C19: however the calls of the threads interleave, each kind of agent is
\* constructed at most once and all calls of one getter return the same instance.
C19_SingletonOnce ==
    /\ \A g \in GetterKinds : built[g] <= 1
    /\ \A t, u \in DOMAIN callers :
          (callers[t].kind = callers[u].kind
             /\ callers[t].pc = "returned" /\ callers[u].pc = "returned") =>
          callers[t].ret = callers[u].ret

\* C21: the calls of the Retrieval Port are made one per element of
\* decision.collections, in that order, each with the request's (stripped) query
\* and with top_k as fetch size; when retrieve_with_routing returns, their number
\* is len(decision.collections), 1 or 2, whether or not a call failed or returned
\* nothing.
C21_SequentialCalls ==
    /\ Len(port_out) = Len(calls)
    /\ calls # <<>> =>
          /\ Len(calls) <= Len(DecisionCollections)
          /\ \A i \in 1..Len(calls) :
                /\ calls[i].collection_name = DecisionCollections[i]
                /\ calls[i].query = Strip(query)
                /\ calls[i].top_k = top_k
    /\ pc = "retrieve" => Len(calls) < Len(DecisionCollections)
    /\ pc = "retrieved" =>
          /\ Len(calls) = Len(DecisionCollections)
          /\ Len(calls) \in {1, 2}

C21_Witness ==
    /\ pc = "retrieved"
    /\ Len(calls) = 2
    /\ port_out[1].raised
    /\ ~port_out[2].raised /\ port_out[2].results = <<>>
    /\ calls[1].collection_name = "kali"
    /\ calls[2].collection_name = "code_travail"
    /\ calls[1].top_k = 3 /\ calls[2].top_k = 3

\* C22: every passage gathered or returned by retrieve_with_routing carries the
\* name of the collection whose call returned it; it carries a convention tag,
\* equal to decision.idcc, exactly when it comes from the kali collection and
\* that call carried a filter; a code_travail passage never carries one.
C22_Tagging ==
    \A rs \in {all_results, results} : \A i \in 1..Len(rs) :
        LET p == rs[i]
            underFilter ==
                \E c \in 1..Len(calls) :
                    /\ calls[c].collection_name = "kali"
                    /\ calls[c].filters # None
        IN  /\ \E c \in 1..Len(calls) :
                  /\ calls[c].collection_name = p.collection
                  /\ ~port_out[c].raised
                  /\ \E j \in 1..Len(port_out[c].results) :
                        port_out[c].results[j].content = p.content
            /\ p.convention # None <=> (p.collection = "kali" /\ underFilter)
            /\ p.convention # None => p.convention = decision[1].idcc
            /\ p.collection = "code_travail" => p.convention = None

C22_Witness ==
    /\ pc = "retrieved"
    /\ decision[1].idcc = Some("1486")
    /\ Len(results) = 2
    /\ results[1].collection = "code_travail"
    /\ results[1].convention = None
    /\ results[2].collection = "kali"
    /\ results[2].convention = Some("1486")

\* the position of passage x in the list s
Pos(s, x) == CHOOSE i \in 1..Len(s) : s[i] = x

\* C23: the returned list is in non-increasing score order and passages of equal
\* score keep their insertion order (earlier call first, Port order within a
\* call), also across the cut at top_k; for a single-collection decision the
\* output is the Port's list, unchanged, cut at top_k; sorting again changes nothing.
C23_StableSort ==
    pc = "retrieved" =>
        /\ \A i, j \in 1..Len(results) :
              i < j =>
                \/ results[i].score > results[j].score
                \/ /\ results[i].score = results[j].score
                   /\ Pos(all_results, results[i]) < Pos(all_results, results[j])
        /\ \A i \in 1..Len(results) : \A k \in 1..Len(all_results) :
              (\A j \in 1..Len(results) : results[j] # all_results[k]) =>
                \/ results[i].score > all_results[k].score
                \/ /\ results[i].score = all_results[k].score
                   /\ Pos(all_results, results[i]) < k
        /\ (Len(calls) = 1 /\ ~port_out[1].raised) =>
              Untagged(results) = Take(port_out[1].results, top_k)
        /\ MergeResults(results, top_k) = results

C23_Witness ==
    /\ pc = "retrieved"
    /\ Len(calls) = 2
    /\ ScoresOf(port_out[1].results) = <<2, 1>>
    /\ ScoresOf(port_out[2].results) = <<2, 1>>
    /\ top_k = 3
    /\ Len(results) = 3
    /\ results[1].collection = calls[1].collection_name
    /\ results[2].collection = calls[2].collection_name
    /\ results[3].collection = calls[1].collection_name

\* C28: in a request whose classification call failed, retrieve_with_routing makes
\* exactly one call, to code_travail, without filter, and no passage it returns
\* carries a convention tag.
C28_FallbackRetrieval ==
    RoutingFailed =>
        /\ Len(calls) <= 1
        /\ \A c \in 1..Len(calls) :
              calls[c].collection_name = "code_travail" /\ calls[c].filters = None
        /\ pc = "retrieved" => Len(calls) = 1
        /\ \A i \in 1..Len(results) :
              results[i].collection = "code_travail" /\ results[i].convention = None

C28_Witness ==
    /\ route_outcome = "refusal"
    /\ pc = "retrieved"
    /\ Len(calls) = 1
    /\ Len(results) = 2

\* how often x occurs in the list s
Count(s, x) == Cardinality({ i \in 1..Len(s) : s[i] = x })

\* C29: the list retrieve_with_routing returns is a sub-multiset of the passages
\* its successful calls returned, content, metadata and score unchanged, each
\* tagged with its call's collection; a call that raised contributes nothing; the
\* decision is the one route() returned.
C29_NoInventedPassages ==
    pc = "retrieved" =>
        /\ \A i \in 1..Len(results) :
              \E c \in 1..Len(calls) :
                  /\ ~port_out[c].raised
                  /\ results[i].collection = calls[c].collection_name
                  /\ Count(results, results[i]) <=
                        Count(port_out[c].results, Untagged(<<results[i]>>)[1])
        /\ \A c \in 1..Len(calls) :
              port_out[c].raised =>
                  \A i \in 1..Len(results) :
                      results[i].collection # calls[c].collection_name
        /\ decision = (IF route_outcome = "parsed" THEN llm_raw
                       ELSE Some([strategy |-> "code_only", idcc |-> None,
                                  reasoning |-> "Fallback: LLM error"]))

C29_Witness ==
    /\ pc = "retrieved"
    /\ route_outcome = "parsed"
    /\ Len(calls) = 2
    /\ port_out[1].raised
    /\ Len(port_out[2].results) = 2
    /\ top_k = 1
    /\ results = TagResults(Take(port_out[2].results, 1), calls[2].collection_name,
                            decision[1].idcc)

\* C24: one call of route() calls the classification service exactly once, whether
\* the call succeeds or fails; one call of generate() on a non-empty list calls the
\* generation service exactly once; no collection is asked twice, so a failed call
\* of the Retrieval Port is not repeated.
C24_NoInternalRetry ==
    /\ llm_calls.classification = (IF route_outcome = "none" THEN 0 ELSE 1)
    /\ llm_calls.generation = (IF gen_outcome = "none" THEN 0 ELSE 1)
    /\ Len(port_out) = Len(calls)
    /\ \A i, j \in 1..Len(calls) :
          i # j => calls[i].collection_name # calls[j].collection_name
    /\ pc = "done" /\ answer # None =>
          llm_calls = [classification |-> 1, generation |-> 1]

C24_Witness ==
    /\ pc = "done"
    /\ route_outcome = "parsed"
    /\ Len(calls) = 2
    /\ port_out[1].raised
    /\ ~port_out[2].raised
    /\ gen_outcome = "exception"
    /\ llm_calls = [classification |-> 1, generation |-> 1]

\* C27: generate() called with a non-empty list always returns an answer and never
\* raises, also when a passage of the list lacks the collection tag or the
\* metadata mapping.
C27_GenerateNeverRaises ==
    (ctor_args = None /\ results # <<>> /\ pc \notin {"generate", "llm_generate"}) =>
        /\ pc = "done"
        /\ answer # None

\* C30: the citation indices generate() returns are the in-range indices of the
\* service's list, in the same order, repetitions kept; answer text, confidence and
\* reasoning are the service's; validating the returned list again changes nothing.
C30_SanitizationFilters ==
    gen_outcome = "parsed" =>
        LET raw == gen_raw[1]
            InRange(idx) == 0 <= idx /\ idx < Len(results)
        IN  /\ answer # None
            /\ answer[1].citation_indices = SelectSeq(raw.citation_indices, InRange)
            /\ answer[1].answer = raw.answer
            /\ answer[1].confidence = raw.confidence
            /\ answer[1].reasoning = raw.reasoning
            /\ ValidIndices(answer[1].citation_indices, results)
                   = answer[1].citation_indices

C30_Witness ==
    /\ gen_outcome = "parsed"
    /\ Len(results) = 4
    /\ gen_raw[1].citation_indices = <<4, 3>>
    /\ answer[1].citation_indices = <<3>>

\* C26: when the classification service's output is valid, route() returns that
\* decision, with the same strategy, idcc and reasoning; calls of route() on the
\* same query with the same response return equal decisions, each makes one call
\* of the service, and the agent and the configuration are left as they were.
C26_RouteReturnsServiceDecision ==
    /\ \A i \in 1..Len(routed) :
          (llm_raw # None
             /\ llm_raw[1].strategy \in
                    {"code_only", "kali_only", "both_code_first", "both_kali_first"}) =>
            /\ routed[i].strategy = llm_raw[1].strategy
            /\ routed[i].idcc = llm_raw[1].idcc
            /\ routed[i].reasoning = llm_raw[1].reasoning
            /\ DOMAIN routed[i] = {"strategy", "idcc", "reasoning"}
    /\ \A i, j \in 1..Len(routed) : routed[i] = routed[j]
    /\ llm_calls.classification = Len(routed)
    /\ routing_agent = Some("instance")
    /\ provider = "openai"

C26_Witness ==
    /\ Len(routed) = 2
    /\ route_outcome = "parsed"
    /\ llm_raw[1].strategy = "both_kali_first"
    /\ llm_raw[1].idcc = Some("")
    /\ routed[1] = llm_raw[1]
    /\ routed[2] = llm_raw[1]

\* an upper bound on the steps the request in hand can still take
StepsLeft ==
    CASE pc = "idle" -> 6
      [] pc = "llm_route" -> 5
      [] pc = "retrieve" -> 2 + (Len(DecisionCollections) - Len(calls))
      [] pc = "retrieved" -> 2
      [] pc = "llm_generate" -> 1
      [] OTHER -> 0

\* C25: every request reaches a terminal state after finitely many steps, provided
\* each external call returns or fails: a request that has not returned can always
\* take a step, every step lowers the number of steps left, which starts at 6 at
\* most, and the request has returned (answer page with a generated or a fallback
\* answer, no-results page, early return) exactly when none is left; at most 2
\* calls of the Retrieval Port are made.
C25_Termination ==
    /\ [](pc # "done" => ENABLED Next)
    /\ [][StepsLeft' < StepsLeft]_vars
    /\ [](StepsLeft \in 0..6)
    /\ [](StepsLeft = 0 <=>
            (pc = "done" /\ response \in {"answer", "no_results", "enter_query", "error"}))
    /\ [](Len(calls) <= 2)

C25_Witness ==
    /\ pc = "done"
    /\ response = "answer"
    /\ Len(calls) = 2
    /\ gen_outcome = "refusal"

====
